---- MODULE Spec2Model ----
(***************************************************************************)
(* Model of the stealth script generator of agent-browser.                 *)
(*                                                                         *)
(* Two variants of the module exist: the basic one (src/unnamed/part_000)  *)
(* and the enhanced one (src/src/stealth.ts).  Each exports                *)
(* defaultStealthConfig, generateStealthScript(config) and                 *)
(* generateStealthArgs().  A payload is modelled as a sequence of text     *)
(* tokens; a numeric literal is a token of kind "n", every other piece of  *)
(* text a token of kind "s".                                               *)
(***************************************************************************)
EXTENDS Integers, Sequences, FiniteSets, TLC

VARIABLES
    variant,               \* which module the caller imported
    config,                \* the StealthConfig object the caller holds
    defaultStealthConfig,  \* the exported default object of the module
    passConfig,            \* TRUE: the caller passes config; FALSE: calls with no argument
    payloads,              \* the distinct strings returned by generateStealthScript so far
    calls,                 \* number of generateStealthScript calls so far
    args,                  \* the array returned by the last generateStealthArgs ("entries")
    argsCalls,             \* number of generateStealthArgs calls so far
    randomChrome,          \* local of generateRealisticUserAgent in the last call
    randomSafari,          \* local of generateRealisticUserAgent in the last call
    draws                  \* number of Math.random() calls made by the module so far

vars == <<variant, config, defaultStealthConfig, passConfig, payloads, calls, args,
          argsCalls, randomChrome, randomSafari, draws>>

----------------------------------------------------------------------------
(* Bounds of the model *)

\* number of fields in which an input config may differ from a base config
MaxOverrides == 1
\* number of generateStealthScript calls in one behaviour
MaxCalls == 2
\* number of generateStealthArgs calls in one behaviour
MaxArgsCalls == 1
\* Math.random() returns r / RandDenom for r in 0 .. RandDenom-1
RandDenom == 3

----------------------------------------------------------------------------
(* Text tokens *)

S(x) == [k |-> "s", v |-> x]
N(x) == [k |-> "n", v |-> x]

SEP == S("\n")

----------------------------------------------------------------------------
(* StealthConfig *)

BasicFields ==
    {"webdriver", "navigator", "navigatorLanguages", "navigatorPlatform",
     "navigatorHardwareConcurrency", "navigatorDeviceMemory", "screenWidth",
     "screenHeight", "pixelRatio", "colorDepth", "touchSupport",
     "chromeRuntime", "permissions", "windowFrame", "doNotTrack", "plugins",
     "mediaDevices"}

EnhancedFields ==
    {"canvasNoise", "webglNoise", "audioContextNoise", "behaviorRandomization"}

BoolFields == BasicFields \cup EnhancedFields

\* the fields the StealthConfig interface of a variant declares
FieldsOf(v) == IF v = "enhanced" THEN BoolFields ELSE BasicFields

\* a boolean field holds true, false, or is absent
FieldVals == {"true", "false", "undefined"}

\* customUserAgent?: string
UserAgentVals == {"undefined", "UA-one", "UA-two"}

Fields == BoolFields \cup {"customUserAgent"}

\* the object literal exported as defaultStealthConfig
DefaultConfig_OptIn(v) ==
    [f \in Fields |->
        IF f = "customUserAgent" THEN "undefined"
        ELSE IF f \notin FieldsOf(v) THEN "undefined"
        ELSE IF f = "doNotTrack" THEN "true"
        ELSE "false"]

DefaultConfig(v) ==
    [f \in Fields |->
        IF f = "customUserAgent" THEN "undefined"
        ELSE IF f \notin FieldsOf(v) THEN "undefined"
        ELSE IF f = "doNotTrack" THEN "false"
        ELSE "true"]

----------------------------------------------------------------------------
(* The override recipes: the template literals pushed by generateStealthScript *)

\* Object.defineProperty(obj, 'prop', { get: ..., configurable: true[, enumerable: true] });
DefineProperty(obj, prop, getter, enumerable) ==
    <<S("Object.defineProperty"), S(obj), S(prop), S("get: () =>")>>
    \o getter
    \o <<S("configurable: true")>>
    \o (IF enumerable THEN <<S("enumerable: true")>> ELSE <<>>)
    \o <<S("});")>>

\* const name = surface; surface = function ... { body };
WrapMethod(name, surface, body) ==
    <<S("const"), S(name), S("="), S(surface), S(";"),
      S(surface), S("= function")>> \o body \o <<S("};")>>

\* const name = () => { ... Math.random() * scale ... };
NoiseFn(name, scale) ==
    <<S("const"), S(name), S("="), S("() =>"), S("Math.random()"), S("*"), N(scale), S(";")>>

\* the text of each template literal, identified by the surface it overrides
TemplateText(rid) ==
    CASE rid = "webdriver" ->
            DefineProperty("navigator", "webdriver", <<S("undefined")>>, TRUE)
      [] rid = "languages4" ->
            DefineProperty("navigator", "languages",
                <<S("['en-US', 'en', 'ja', 'zh-CN']")>>, TRUE)
      [] rid = "language" ->
            DefineProperty("navigator", "language", <<S("'en-US'")>>, TRUE)
      [] rid = "languages2" ->
            DefineProperty("navigator", "languages", <<S("['en-US', 'en']")>>, TRUE)
      [] rid = "platform" ->
            DefineProperty("navigator", "platform", <<S("'Win32'")>>, TRUE)
      [] rid = "hardwareConcurrency" ->
            DefineProperty("navigator", "hardwareConcurrency", <<N("4")>>, TRUE)
      [] rid = "deviceMemory" ->
            DefineProperty("navigator", "deviceMemory", <<N("8")>>, TRUE)
      [] rid = "screen.width" ->
            DefineProperty("screen", "width", <<N("1920")>>, TRUE)
      [] rid = "screen.height" ->
            DefineProperty("screen", "height", <<N("1080")>>, TRUE)
      [] rid = "screen.availWidth" ->
            DefineProperty("screen", "availWidth", <<N("1920")>>, TRUE)
      [] rid = "screen.availHeight" ->
            DefineProperty("screen", "availHeight", <<N("1040")>>, TRUE)
      [] rid = "devicePixelRatio" ->
            DefineProperty("window", "devicePixelRatio", <<N("1")>>, TRUE)
      [] rid = "screen.colorDepth" ->
            DefineProperty("screen", "colorDepth", <<N("24")>>, TRUE)
      [] rid = "maxTouchPoints" ->
            DefineProperty("navigator", "maxTouchPoints", <<N("0")>>, TRUE)
      [] rid = "touchSupport" ->
            DefineProperty("navigator", "touchSupport", <<S("true")>>, TRUE)
      [] rid = "chrome" ->
            DefineProperty("window", "chrome",
                <<S("({"), S("runtime: { onInstalled, onStartup, onSuspend, onUpdateAvailable, requestUpdateCheck, restart, connect, sendMessage }"),
                  S("loadTimes: () => Date.now() /"), N("1000"),
                  S("csi: () => Date.now()"),
                  S("app: { GET_IS_INSTALLED, INSTALL_TYPE, getDetails }"),
                  S("installedTime:"), N("0"), S("lastUpdateTime:"), N("0"),
                  S("webstore: { onInstallStageChanged, onDownloadProgress, install }"),
                  S("runtime: { id, sendMessage, onMessageExternal, onConnectExternal }"),
                  S("})")>>, TRUE)
      [] rid = "permissions.query" ->
            <<S("const"), S("originalQuery"), S("="), S("navigator.permissions.query"), S(";"),
              S("navigator.permissions.query"), S("= (parameters) =>"),
              S("if (parameters.name === 'notifications')"),
              S("return Promise.resolve({ state: 'denied', onchange: null })"),
              S("return originalQuery(parameters)"), S("};")>>
      [] rid = "frameElement" ->
            DefineProperty("window", "frameElement", <<S("null")>>, TRUE)
      [] rid = "frames" ->
            DefineProperty("window", "frames", <<S("window")>>, TRUE)
      [] rid = "doNotTrack" ->
            DefineProperty("navigator", "doNotTrack", <<S("'unspecified'")>>, TRUE)
      [] rid = "plugins" ->
            <<S("const"), S("pluginData"), S("="),
              S("[Chrome PDF Plugin, Chrome PDF Viewer, Native Client]"), S(";")>>
            \o DefineProperty("navigator", "plugins", <<S("pluginData")>>, TRUE)
      [] rid = "mimeTypes" ->
            DefineProperty("navigator", "mimeTypes",
                <<S("{"), S("const"), S("mimeTypes"), S("="), S("[]"), S(";"),
                  S("navigator.plugins.forEach"), S("return mimeTypes"), S("}")>>, TRUE)
      [] rid = "mediaDevices" ->
            DefineProperty("navigator", "mediaDevices",
                <<S("({"), S("enumerateDevices: audioinput, videoinput"),
                  S("getUserMedia: reject"), S("getDisplayMedia: reject"),
                  S("addEventListener"), S("removeEventListener"), S("dispatchEvent"),
                  S("})")>>, TRUE)
      [] rid = "webglVendor" ->
            WrapMethod("getParameter", "WebGLRenderingContext.prototype.getParameter",
                <<S("if (parameter ==="), N("37445"),
                  S("return 'Intel Open Source Technology Center'"),
                  S("if (parameter ==="), N("37446"),
                  S("return 'Mesa DRI Intel(R) UHD Graphics 630 (CFL GT2)'"),
                  S("return getParameter.call(this, parameter)")>>)
      [] rid = "userActivation" ->
            DefineProperty("navigator", "userActivation",
                <<S("({ isActive: true, hasBeenActive: true })")>>, FALSE)
      [] rid = "connection" ->
            DefineProperty("navigator", "connection",
                <<S("({"), S("downlink:"), N("10"), S("effectiveType: '4g'"),
                  S("rtt:"), N("50"), S("saveData: false"), S("type: 'wifi'"),
                  S("addEventListener"), S("removeEventListener"), S("dispatchEvent"),
                  S("})")>>, TRUE)
      [] rid = "canvasNoise" ->
            NoiseFn("canvasNoise", "0.000001")
            \o WrapMethod("originalToDataURL", "HTMLCanvasElement.prototype.toDataURL",
                <<S("if (this.width ==="), N("0"), S("|| this.height ==="), N("0"),
                  S("return originalToDataURL.call(this, type, encoderOptions)"),
                  S("(Math.random() -"), N("0.5"), S(") *"), N("2"),
                  S("ctx.putImageData"),
                  S("return originalToDataURL.call(this, type, encoderOptions)")>>)
            \o WrapMethod("originalGetImageData",
                "CanvasRenderingContext2D.prototype.getImageData",
                <<S("const data = originalGetImageData.call(this, sx, sy, sw, sh)"),
                  S("if (Math.random() >"), N("0.99"),
                  S("Math.random() *"), N("0.5"), S("%"), N("256"),
                  S("return data")>>)
      [] rid = "webglNoise" ->
            NoiseFn("webglNoise", "0.0001")
            \o WrapMethod("getParameter", "WebGLRenderingContext.prototype.getParameter",
                <<S("if (typeof parameter === 'number')"),
                  S("const original = getParameter.call(this, parameter)"),
                  S("if (typeof original === 'number') return original + noise"),
                  S("if (parameter ==="), N("37445"), S("return 'NVIDIA Corporation'"),
                  S("if (parameter ==="), N("37446"), S("return 'GeForce RTX 3080/PCIe/SSE2'"),
                  S("if (parameter ==="), N("7937"), S("return 'WebKit'"),
                  S("if (parameter ==="), N("7938"), S("return 'WebGL 2.0'"),
                  S("return getParameter.call(this, parameter)")>>)
            \o WrapMethod("originalClear", "WebGLRenderingContext.prototype.clear",
                <<S("if (Math.random() >"), N("0.95"),
                  S("this.clearColor(Math.random() *"), N("0.1"), N("1.0"),
                  S("return originalClear.call(this, mask)")>>)
            \o WrapMethod("getParameter2", "WebGL2RenderingContext.prototype.getParameter",
                <<S("if (parameter ==="), N("37445"), S("return 'NVIDIA Corporation'"),
                  S("if (parameter ==="), N("37446"), S("return 'GeForce RTX 3080/PCIe/SSE2'"),
                  S("return getParameter2.call(this, parameter)")>>)
      [] rid = "audioContextNoise" ->
            NoiseFn("audioNoise", "0.0000001")
            \o WrapMethod("originalGetChannelData", "AudioContext.prototype.createBuffer",
                <<S("const buffer = originalGetChannelData.call(this, numberOfChannels, length, sampleRate)"),
                  S("j +="), N("1000"), S("channelData[j] += audioNoise()"),
                  S("return buffer")>>)
            \o WrapMethod("originalDecodeAudioData", "AudioContext.prototype.decodeAudioData",
                <<S("return originalDecodeAudioData.call(this, audioData, callback, error)"),
                  S("j +="), N("500"), S("channelData[j] += audioNoise()"),
                  S("if (success) success(decodedBuffer)")>>)
      [] rid = "behaviorRandomization" ->
            WrapMethod("originalScroll", "window.scrollTo",
                <<S("x + (Math.random() -"), N("0.5"), S(") *"), N("10"),
                  S("y + (Math.random() -"), N("0.5"), S(") *"), N("10"),
                  S("originalScroll.call(this, Math.max(0, randomX), Math.max(0, randomY))")>>)
            \o <<S("let"), S("mouseMoveCount"), S("="), N("0"), S(";"),
                 S("document.addEventListener('mousemove')")>>
            \o WrapMethod("originalClick", "HTMLElement.prototype.click",
                <<S("Math.random() *"), N("50"), S("+"), N("10"),
                  S("setTimeout(() => originalClick.call(this), delay)")>>)
            \o WrapMethod("originalFocus", "HTMLElement.prototype.focus",
                <<S("Math.random() *"), N("30"), S("+"), N("5"),
                  S("setTimeout(() => originalFocus.call(this), delay)")>>)
            \o DefineProperty("document", "hidden", <<S("false")>>, FALSE)
            \o DefineProperty("document", "visibilityState", <<S("'visible'")>>, FALSE)
            \o DefineProperty("window", "scrollX",
                <<S("Math.floor(Math.random() *"), N("5")>>, FALSE)
            \o DefineProperty("window", "scrollY",
                <<S("Math.floor(Math.random() *"), N("5")>>, FALSE)
            \o WrapMethod("originalNow", "performance.now",
                <<S("const now = originalNow.call(this)"),
                  S("return now + (Math.random() -"), N("0.5"), S(") *"), N("0.5")>>)
            \o <<S("const"), S("originalDate"), S("="), S("Date"), S(";"),
                 S("Date"), S("= function"),
                 S("new originalDate(originalDate.now() + (Math.random() -"), N("0.5"),
                 S(") *"), N("100"), S("return new originalDate(...args)"), S("};"),
                 S("Date.now"), S("= function"),
                 S("return originalDate.now() + (Math.random() -"), N("0.5"),
                 S(") *"), N("100"), S("};")>>
      [] rid = "speechSynthesis" ->
            DefineProperty("window", "speechSynthesis",
                <<S("({ pending, speaking, paused, cancel, speak, pause, resume, getVoices })")>>,
                FALSE)
      [] rid = "getGamepads" ->
            DefineProperty("navigator", "getGamepads",
                <<S("() => Array("), N("4"), S(").fill(null)")>>, FALSE)
      [] rid = "getBattery" ->
            DefineProperty("navigator", "getBattery",
                <<S("() => Promise.resolve({"), S("charging: true"),
                  S("chargingTime:"), N("0"), S("dischargingTime: Infinity"),
                  S("level:"), N("1"), S("})")>>, FALSE)
      [] rid = "clipboard" ->
            DefineProperty("navigator", "clipboard",
                <<S("({ readText, writeText, read, write: reject('Clipboard access denied') })")>>,
                FALSE)

RecipeIds ==
    {"webdriver", "languages4", "language", "languages2", "platform",
     "hardwareConcurrency", "deviceMemory", "screen.width", "screen.height",
     "screen.availWidth", "screen.availHeight", "devicePixelRatio",
     "screen.colorDepth", "maxTouchPoints", "touchSupport", "chrome",
     "permissions.query", "frameElement", "frames", "doNotTrack", "plugins",
     "mimeTypes", "mediaDevices", "webglVendor", "userActivation", "connection",
     "canvasNoise", "webglNoise", "audioContextNoise", "behaviorRandomization",
     "speechSynthesis", "getGamepads", "getBattery", "clipboard"}

\* the template literals of the module, by recipe
Templates == [rid \in RecipeIds |-> TemplateText(rid)]

----------------------------------------------------------------------------
(* generateStealthScript *)

\* the tagged template literal as evaluated by the generator: the templates hold
\* no ${...} placeholder, so no value of the generator is substituted into them
RecipeText_Interpolated(rid, rnd) ==
    IF rid \in {"canvasNoise", "webglNoise", "audioContextNoise", "behaviorRandomization"}
    THEN Templates[rid] \o <<N(rnd)>>
    ELSE Templates[rid]

RecipeText_RandomVendor(rid, rnd) ==
    IF rid = "webglVendor"
    THEN Templates[rid] \o <<S(IF rnd = 0 THEN "Intel" ELSE "NVIDIA")>>
    ELSE Templates[rid]

RecipeText(rid, rnd) == Templates[rid]

\* the if-blocks of generateStealthScript in source order: the keys tested by the
\* condition (none: the pushes are unconditional) and the pushes of the block
Catalog ==
    << [id |-> "webdriver", gate |-> {"webdriver"}, recipes |-> <<"webdriver">>],
       [id |-> "navigator", gate |-> {"navigator"},
        recipes |-> <<"languages4", "language", "languages2">>],
       [id |-> "navigatorPlatform", gate |-> {"navigatorPlatform"},
        recipes |-> <<"platform">>],
       [id |-> "navigatorHardwareConcurrency", gate |-> {"navigatorHardwareConcurrency"},
        recipes |-> <<"hardwareConcurrency">>],
       [id |-> "navigatorDeviceMemory", gate |-> {"navigatorDeviceMemory"},
        recipes |-> <<"deviceMemory">>],
       [id |-> "screen",
        gate |-> {"screenWidth", "screenHeight", "pixelRatio", "colorDepth"},
        recipes |-> <<"screen.width", "screen.height", "screen.availWidth",
                      "screen.availHeight", "devicePixelRatio", "screen.colorDepth">>],
       [id |-> "touchSupport", gate |-> {"touchSupport"},
        recipes |-> <<"maxTouchPoints", "touchSupport">>],
       [id |-> "chromeRuntime", gate |-> {"chromeRuntime"}, recipes |-> <<"chrome">>],
       [id |-> "permissions", gate |-> {"permissions"},
        recipes |-> <<"permissions.query">>],
       [id |-> "windowFrame", gate |-> {"windowFrame"},
        recipes |-> <<"frameElement", "frames">>],
       [id |-> "doNotTrack", gate |-> {"doNotTrack"}, recipes |-> <<"doNotTrack">>],
       [id |-> "plugins", gate |-> {"plugins"}, recipes |-> <<"plugins", "mimeTypes">>],
       [id |-> "mediaDevices", gate |-> {"mediaDevices"},
        recipes |-> <<"mediaDevices">>],
       [id |-> "webglVendor", gate |-> {}, recipes |-> <<"webglVendor">>],
       [id |-> "userActivation", gate |-> {}, recipes |-> <<"userActivation">>],
       [id |-> "connection", gate |-> {}, recipes |-> <<"connection">>],
       [id |-> "canvasNoise", gate |-> {"canvasNoise"}, recipes |-> <<"canvasNoise">>],
       [id |-> "webglNoise", gate |-> {"webglNoise"}, recipes |-> <<"webglNoise">>],
       [id |-> "audioContextNoise", gate |-> {"audioContextNoise"},
        recipes |-> <<"audioContextNoise">>],
       [id |-> "behaviorRandomization", gate |-> {"behaviorRandomization"},
        recipes |-> <<"behaviorRandomization">>],
       [id |-> "speechSynthesis", gate |-> {}, recipes |-> <<"speechSynthesis">>],
       [id |-> "getGamepads", gate |-> {}, recipes |-> <<"getGamepads">>],
       [id |-> "getBattery", gate |-> {}, recipes |-> <<"getBattery">>],
       [id |-> "clipboard", gate |-> {}, recipes |-> <<"clipboard">>] >>

\* the basic variant ends after the connection block
BasicGroups == 16

CatalogOf_NoiseFirst(v) ==
    IF v = "enhanced"
    THEN SubSeq(Catalog, BasicGroups + 1, Len(Catalog)) \o SubSeq(Catalog, 1, BasicGroups)
    ELSE SubSeq(Catalog, 1, BasicGroups)

CatalogOf(v) == IF v = "enhanced" THEN Catalog ELSE SubSeq(Catalog, 1, BasicGroups)

\* the condition of an if-block: config.k !== false for one of its keys
Active_StrictTrue(g, cfg) ==
    \/ g.gate = {}
    \/ \E k \in g.gate : cfg[k] = "true"

Active_GatedConnection(g, cfg) ==
    IF g.id = "connection"
    THEN cfg["mediaDevices"] # "false"
    ELSE \/ g.gate = {}
         \/ \E k \in g.gate : cfg[k] # "false"

Active_CoupledToNavigator(g, cfg) ==
    IF g.id = "touchSupport"
    THEN cfg["navigator"] # "false" /\ cfg["touchSupport"] # "false"
    ELSE \/ g.gate = {}
         \/ \E k \in g.gate : cfg[k] # "false"

Active_AllKeys(g, cfg) ==
    \/ g.gate = {}
    \/ \A k \in g.gate : cfg[k] # "false"

Active(g, cfg) ==
    \/ g.gate = {}
    \/ \E k \in g.gate : cfg[k] # "false"

\* the pushes of one block
Pushes(g, rnd) == [i \in 1 .. Len(g.recipes) |-> RecipeText(g.recipes[i], rnd)]

\* the scripts array after the first n blocks
RECURSIVE ScriptsUpTo(_, _, _, _)
ScriptsUpTo(cat, n, cfg, rnd) ==
    IF n = 0 THEN <<>>
    ELSE ScriptsUpTo(cat, n - 1, cfg, rnd)
         \o (IF Active(cat[n], cfg) THEN Pushes(cat[n], rnd) ELSE <<>>)

\* Array.prototype.join
Join_NoSeparator(scripts, sep) ==
    LET RECURSIVE Cat(_)
        Cat(n) == IF n = 0 THEN <<>> ELSE Cat(n - 1) \o scripts[n]
    IN  Cat(Len(scripts))

RECURSIVE Join(_, _)
Join(scripts, sep) ==
    IF Len(scripts) = 0 THEN <<>>
    ELSE IF Len(scripts) = 1 THEN scripts[1]
    ELSE Join(SubSeq(scripts, 1, Len(scripts) - 1), sep)
         \o <<sep>> \o scripts[Len(scripts)]

generateStealthScript_RequiresUserAgent(v, cfg, rnd) ==
    IF cfg["customUserAgent"] = "undefined"
    THEN <<[k |-> "throw", v |-> "TypeError"]>>
    ELSE Join(ScriptsUpTo(CatalogOf(v), Len(CatalogOf(v)), cfg, rnd), SEP)

generateStealthScript(v, cfg, rnd) ==
    Join(ScriptsUpTo(CatalogOf(v), Len(CatalogOf(v)), cfg, rnd), SEP)

----------------------------------------------------------------------------
(* generateStealthArgs and generateRealisticUserAgent *)

versions ==
    [chrome |-> <<"131.0.0.0", "132.0.0.0", "133.0.0.0">>,
     safari |-> <<"605.1.15", "616.4.1", "617.1.15">>]

\* pool[Math.floor(Math.random() * pool.length)], Math.random() = r / RandDenom
Pick(pool, r) == pool[((r * Len(pool)) \div RandDenom) + 1]

UA_PREFIX ==
    "Mozilla/5.0 (Windows NT 10.0; Win64; x64) AppleWebKit/537.36 (KHTML, like Gecko) Chrome/"

UA_SUFFIX == " Safari/537.36"

\* the template literal returned by generateRealisticUserAgent, as its pieces
generateRealisticUserAgent_Swapped(chrome, safari) == <<UA_PREFIX, safari, UA_SUFFIX>>

generateRealisticUserAgent(chrome, safari) == <<UA_PREFIX, chrome, UA_SUFFIX>>

BasicArgs ==
    << <<"--disable-blink-features=AutomationControlled">>,
       <<"--disable-dev-shm-usage">>, <<"--no-sandbox">>,
       <<"--window-size=1920,1080">>, <<"--start-maximized">>,
       <<"--disable-web-security">>,
       <<"--disable-features=IsolateOrigins,site-per-process">>,
       <<"--disable-benchmarking">>, <<"--disable-extensions">>,
       <<"--disable-background-networking">>, <<"--disable-sync">>,
       <<"--disable-translate">>, <<"--metrics-recording-only">>,
       <<"--mute-audio">>, <<"--safebrowsing-disable-auto-update">>,
       <<"--enable-automation">>, <<"--disable-automation">>,
       <<"--password-store=basic">>, <<"--use-mock-keychain">> >>

EnhancedStaticArgs ==
    << <<"--disable-blink-features=AutomationControlled">>,
       <<"--disable-automation">>, <<"--enable-automation">>,
       <<"--disable-dev-shm-usage">>, <<"--no-sandbox">>,
       <<"--disable-setuid-sandbox">>, <<"--disable-gpu">>,
       <<"--disable-dev-shm-usage">>, <<"--disable-accelerated-2d-canvas">>,
       <<"--window-size=1920,1080">>, <<"--window-position=0,0">>,
       <<"--start-maximized">>, <<"--maximize">>,
       <<"--disable-web-security">>,
       <<"--disable-features=IsolateOrigins,site-per-process,TranslateUI">>,
       <<"--disable-benchmarking">>, <<"--disable-extensions">>,
       <<"--disable-background-networking">>, <<"--disable-sync">>,
       <<"--disable-translate">>, <<"--metrics-recording-only">>,
       <<"--mute-audio">>, <<"--safebrowsing-disable-auto-update">>,
       <<"--safebrowsing-disable-download-protection">>,
       <<"--password-store=basic">>, <<"--use-mock-keychain">>,
       <<"--disable-autofill-assistant">>, <<"--disable-password-generation">>,
       <<"--disable-save-password-bubble">>,
       <<"--disable-software-rasterizer">>, <<"--disable-accelerated-video-decode">>,
       <<"--disable-frame-rate-limit">>, <<"--ignore-gpu-blocklist">>,
       <<"--disable-ipc-flooding-protection">>, <<"--disable-prompt-on-repost">>,
       <<"--noerrdialogs">>, <<"--disable-breakpad">>, <<"--disable-logging">>,
       <<"--disable-metrics">>, <<"--disable-metrics-reporting">> >>

\* the array literal returned by generateStealthArgs; each entry is the sequence
\* of the string pieces concatenated into it
generateStealthArgs(v, ua) ==
    IF v = "enhanced"
    THEN Append(EnhancedStaticArgs, <<"--user-agent=">> \o ua)
    ELSE BasicArgs

----------------------------------------------------------------------------
(* The configurations a caller passes *)

ValsOf(f) == IF f = "customUserAgent" THEN UserAgentVals ELSE FieldVals

\* an object literal giving every boolean field of the variant the value val
Uniform(v, val) ==
    [f \in Fields |-> IF f \in FieldsOf(v) THEN val ELSE "undefined"]

BaseConfigs(v) ==
    {DefaultConfig(v), Uniform(v, "false"), Uniform(v, "undefined")}

\* the configs that differ from a config of C in at most one more field
Override(v, C) ==
    C \cup {[c EXCEPT ![f] = val] :
               c \in C, f \in FieldsOf(v) \cup {"customUserAgent"}, val \in FieldVals \cup UserAgentVals}

RECURSIVE Within(_, _)
Within(v, k) == IF k = 0 THEN BaseConfigs(v) ELSE Override(v, Within(v, k - 1))

WellTyped(c) == \A f \in Fields : c[f] \in ValsOf(f)

Configs(v) == {c \in Within(v, MaxOverrides) : WellTyped(c)}

----------------------------------------------------------------------------
(* The state machine: a caller of the module *)

Init ==
    /\ variant \in {"basic", "enhanced"}
    /\ config \in Configs(variant)
    /\ passConfig \in BOOLEAN
    /\ (~passConfig => config = DefaultConfig(variant))
    /\ defaultStealthConfig = DefaultConfig(variant)
    /\ payloads = {}
    /\ calls = 0
    /\ args = <<>>
    /\ argsCalls = 0
    /\ randomChrome = "undefined"
    /\ randomSafari = "undefined"
    /\ draws = 0

\* the parameter of generateStealthScript: config: StealthConfig = defaultStealthConfig
Param == IF passConfig THEN config ELSE defaultStealthConfig

\* generateStealthScript(config): rnd is what Math.random() would return
GenerateStealthScript_FillsDefaults ==
    /\ calls < MaxCalls
    /\ \E rnd \in 0 .. RandDenom - 1 :
          payloads' = payloads \cup {generateStealthScript(variant, Param, rnd)}
    /\ calls' = calls + 1
    /\ config' = IF passConfig
                 THEN [f \in Fields |->
                          IF f \in FieldsOf(variant) /\ config[f] = "undefined"
                          THEN "true" ELSE config[f]]
                 ELSE config
    /\ defaultStealthConfig' =
          IF passConfig THEN defaultStealthConfig
          ELSE [defaultStealthConfig EXCEPT !["doNotTrack"] = "true"]
    /\ UNCHANGED <<variant, passConfig, args,
                   argsCalls, randomChrome, randomSafari, draws>>

GenerateStealthScript ==
    /\ calls < MaxCalls
    /\ \E rnd \in 0 .. RandDenom - 1 :
          payloads' = payloads \cup {generateStealthScript(variant, Param, rnd)}
    /\ calls' = calls + 1
    /\ UNCHANGED <<variant, config, defaultStealthConfig, passConfig, args,
                   argsCalls, randomChrome, randomSafari, draws>>

\* generateStealthArgs() of the enhanced variant: two Math.random() draws
GenerateStealthArgsEnhanced ==
    /\ variant = "enhanced"
    /\ argsCalls < MaxArgsCalls
    /\ \E r1, r2 \in 0 .. RandDenom - 1 :
          /\ randomChrome' = Pick(versions.chrome, r1)
          /\ randomSafari' = Pick(versions.safari, r2)
    /\ draws' = draws + 2
    /\ args' = generateStealthArgs(variant,
                   generateRealisticUserAgent(randomChrome', randomSafari'))
    /\ argsCalls' = argsCalls + 1
    /\ UNCHANGED <<variant, config, defaultStealthConfig, passConfig, payloads, calls>>

\* generateStealthArgs() of the basic variant: a constant array
GenerateStealthArgsBasic ==
    /\ variant = "basic"
    /\ argsCalls < MaxArgsCalls
    /\ args' = generateStealthArgs(variant, <<>>)
    /\ argsCalls' = argsCalls + 1
    /\ UNCHANGED <<variant, config, defaultStealthConfig, passConfig, payloads,
                   calls, randomChrome, randomSafari, draws>>

Next ==
    \/ GenerateStealthScript
    \/ GenerateStealthArgsEnhanced
    \/ GenerateStealthArgsBasic

Spec == Init /\ [][Next]_vars

\* The two exported functions share no state: generateStealthScript reads only
\* its parameter, generateStealthArgs only the random source.  Each is therefore
\* also run on its own, over the same initial states.
NextScript == GenerateStealthScript

SpecScript == Init /\ [][NextScript]_vars

NextArgs ==
    \/ GenerateStealthArgsEnhanced
    \/ GenerateStealthArgsBasic

SpecArgs == Init /\ [][NextArgs]_vars

----------------------------------------------------------------------------
(* The wrapped methods of the recipes *)

\* one statement of a wrapper body: it runs when the call has all the facts of
\* `when`; `do` is what it does with the saved original: "call" invokes it and
\* goes on, "callReturn" returns its result, "defer" invokes it from a
\* setTimeout callback, "return" returns without it, "perturb" does not touch it
St(when, do) == [when |-> when, do |-> do]

\* the methods each recipe wraps: the const holding the original, the surface
\* assigned, the statements of the replacement in order, and the cases of a call
Wrappers(rid) ==
    CASE rid = "permissions.query" ->
            {[original |-> "originalQuery", surface |-> "navigator.permissions.query",
              steps |-> <<St({"name=notifications"}, "return"), St({}, "callReturn")>>,
              inputs |-> {{"name=notifications"}, {}}]}
      [] rid = "webglVendor" ->
            {[original |-> "getParameter",
              surface |-> "WebGLRenderingContext.prototype.getParameter",
              steps |-> <<St({"p=37445"}, "return"), St({"p=37446"}, "return"),
                          St({}, "callReturn")>>,
              inputs |-> {{"p=37445"}, {"p=37446"}, {}}]}
      [] rid = "canvasNoise" ->
            {[original |-> "originalToDataURL",
              surface |-> "HTMLCanvasElement.prototype.toDataURL",
              steps |-> <<St({"empty"}, "callReturn"), St({"ctx"}, "perturb"),
                          St({}, "callReturn")>>,
              inputs |-> {{"empty"}, {"ctx"}, {}}],
             [original |-> "originalGetImageData",
              surface |-> "CanvasRenderingContext2D.prototype.getImageData",
              steps |-> <<St({}, "call"), St({}, "perturb"), St({}, "return")>>,
              inputs |-> {{}}]}
      [] rid = "webglNoise" ->
            {[original |-> "getParameter",
              surface |-> "WebGLRenderingContext.prototype.getParameter",
              steps |-> <<St({"number"}, "call"), St({"number", "originalNumber"}, "return"),
                          St({"p=37445"}, "return"), St({"p=37446"}, "return"),
                          St({"p=7937"}, "return"), St({"p=7938"}, "return"),
                          St({}, "callReturn")>>,
              inputs |-> {{"number", "p=37445"}, {"number", "p=37446"},
                          {"number", "p=7937"}, {"number", "p=7938"},
                          {"number", "originalNumber"}, {"number"}, {}}],
             [original |-> "originalClear",
              surface |-> "WebGLRenderingContext.prototype.clear",
              steps |-> <<St({"random>0.95"}, "perturb"), St({}, "callReturn")>>,
              inputs |-> {{"random>0.95"}, {}}],
             [original |-> "getParameter2",
              surface |-> "WebGL2RenderingContext.prototype.getParameter",
              steps |-> <<St({"p=37445"}, "return"), St({"p=37446"}, "return"),
                          St({}, "callReturn")>>,
              inputs |-> {{"p=37445"}, {"p=37446"}, {}}]}
      [] rid = "audioContextNoise" ->
            {[original |-> "originalGetChannelData",
              surface |-> "AudioContext.prototype.createBuffer",
              steps |-> <<St({}, "call"), St({}, "perturb"), St({}, "return")>>,
              inputs |-> {{}}],
             [original |-> "originalDecodeAudioData",
              surface |-> "AudioContext.prototype.decodeAudioData",
              steps |-> <<St({}, "callReturn")>>,
              inputs |-> {{}}]}
      [] rid = "behaviorRandomization" ->
            {[original |-> "originalScroll", surface |-> "window.scrollTo",
              steps |-> <<St({"object"}, "perturb"), St({}, "perturb"), St({}, "call")>>,
              inputs |-> {{"object"}, {}}],
             [original |-> "originalClick", surface |-> "HTMLElement.prototype.click",
              steps |-> <<St({}, "perturb"), St({}, "defer")>>,
              inputs |-> {{}}],
             [original |-> "originalFocus", surface |-> "HTMLElement.prototype.focus",
              steps |-> <<St({}, "perturb"), St({}, "defer")>>,
              inputs |-> {{}}],
             [original |-> "originalNow", surface |-> "performance.now",
              steps |-> <<St({}, "call"), St({}, "return")>>,
              inputs |-> {{}}]}
      [] OTHER -> {}

\* the number of times the original is invoked by a call that has `facts`,
\* running the statements from the i-th with n invocations so far
RECURSIVE Exec(_, _, _, _)
Exec(steps, i, facts, n) ==
    IF i > Len(steps) THEN n
    ELSE IF ~(steps[i].when \subseteq facts) THEN Exec(steps, i + 1, facts, n)
    ELSE CASE steps[i].do = "return" -> n
           [] steps[i].do = "callReturn" -> n + 1
           [] steps[i].do \in {"call", "defer"} -> Exec(steps, i + 1, facts, n + 1)
           [] OTHER -> Exec(steps, i + 1, facts, n)

Invocations_DeferDropped(w, facts) ==
    IF \E i \in 1 .. Len(w.steps) : w.steps[i].do = "defer"
    THEN 0
    ELSE Exec(w.steps, 1, facts, 0)

Invocations(w, facts) == Exec(w.steps, 1, facts, 0)

----------------------------------------------------------------------------
(* Reading a payload *)

\* pat occurs in text as a contiguous run of tokens
Contains(text, pat) ==
    \E i \in 1 .. Len(text) - Len(pat) + 1 :
        \A j \in 1 .. Len(pat) : text[i + j - 1] = pat[j]

HasRecipe(p, rid) == Contains(p, Templates[rid])

\* the payload with its numeric literals removed
IsText(tok) == tok.k # "n"
Strip(p) == SelectSeq(p, IsText)

\* the pieces of a payload between separators
RECURSIVE Split(_, _)
Split(p, sep) ==
    IF \A i \in 1 .. Len(p) : p[i] # sep THEN <<p>>
    ELSE LET i == CHOOSE k \in 1 .. Len(p) :
                      p[k] = sep /\ \A m \in 1 .. k - 1 : p[m] # sep
         IN  <<SubSeq(p, 1, i - 1)>> \o Split(SubSeq(p, i + 1, Len(p)), sep)

\* s is a subsequence of t
RECURSIVE IsSubsequence(_, _)
IsSubsequence(s, t) ==
    IF Len(s) = 0 THEN TRUE
    ELSE IF Len(t) = 0 THEN FALSE
    ELSE IF s[1] = t[1] THEN IsSubsequence(Tail(s), Tail(t))
    ELSE IsSubsequence(s, Tail(t))

\* the recipes each boolean field is documented to switch
FieldRecipes(f) ==
    CASE f = "webdriver" -> {"webdriver"}
      [] f = "navigator" -> {"language"}
      [] f = "navigatorLanguages" -> {"languages4", "languages2"}
      [] f = "navigatorPlatform" -> {"platform"}
      [] f = "navigatorHardwareConcurrency" -> {"hardwareConcurrency"}
      [] f = "navigatorDeviceMemory" -> {"deviceMemory"}
      [] f = "screenWidth" -> {"screen.width", "screen.availWidth"}
      [] f = "screenHeight" -> {"screen.height", "screen.availHeight"}
      [] f = "pixelRatio" -> {"devicePixelRatio"}
      [] f = "colorDepth" -> {"screen.colorDepth"}
      [] f = "touchSupport" -> {"maxTouchPoints", "touchSupport"}
      [] f = "chromeRuntime" -> {"chrome"}
      [] f = "permissions" -> {"permissions.query"}
      [] f = "windowFrame" -> {"frameElement", "frames"}
      [] f = "doNotTrack" -> {"doNotTrack"}
      [] f = "plugins" -> {"plugins", "mimeTypes"}
      [] f = "mediaDevices" -> {"mediaDevices"}
      [] f = "canvasNoise" -> {"canvasNoise"}
      [] f = "webglNoise" -> {"webglNoise"}
      [] f = "audioContextNoise" -> {"audioContextNoise"}
      [] f = "behaviorRandomization" -> {"behaviorRandomization"}

\* the recipes of the blocks of a variant that test a config key
GatedRecipes(v) ==
    UNION {{CatalogOf(v)[n].recipes[i] : i \in 1 .. Len(CatalogOf(v)[n].recipes)} :
              n \in {m \in 1 .. Len(CatalogOf(v)) : CatalogOf(v)[m].gate # {}}}

AllFalse == \A f \in FieldsOf(variant) : Param[f] = "false"
AllUnset == \A f \in FieldsOf(variant) : Param[f] = "undefined"

----------------------------------------------------------------------------
(* Claims *)

\* C1 (as stated): for every boolean field, the payload holds the recipes of the
\* field's patch group if and only if the field is not explicitly false.
C1_FieldGatesItsRecipe ==
    \A p \in payloads : \A f \in FieldsOf(variant) : \A rid \in FieldRecipes(f) :
        HasRecipe(p, rid) <=> (Param[f] # "false")

\* C2: with every boolean field false the payload still holds the WebGL vendor,
\* userActivation and connection overrides, and none of the gated recipes.
C2_AllFalseKeepsUnconditional ==
    AllFalse =>
        \A p \in payloads :
            /\ HasRecipe(p, "webglVendor")
            /\ HasRecipe(p, "userActivation")
            /\ HasRecipe(p, "connection")
            /\ \A rid \in GatedRecipes(variant) : ~HasRecipe(p, rid)

C2_Witness ==
    /\ AllFalse
    /\ passConfig
    /\ calls > 0
    /\ \E p \in payloads : HasRecipe(p, "connection")

\* C3: called with no argument, generateStealthScript returns a non-empty payload
\* holding an identity-tier recipe (navigator.webdriver) and a capability-tier
\* recipe (window.chrome or navigator.plugins).
C3_DefaultHasIdentityAndCapability ==
    ~passConfig =>
        \A p \in payloads :
            /\ Len(p) > 0
            /\ HasRecipe(p, "webdriver")
            /\ HasRecipe(p, "chrome") \/ HasRecipe(p, "plugins")

C3_Witness ==
    /\ ~passConfig
    /\ calls > 0
    /\ \E p \in payloads : HasRecipe(p, "webdriver") /\ HasRecipe(p, "chrome")

\* C4: leaving a boolean field unset gives the same payload as setting it to
\* true, and the empty config enables every gated recipe, doNotTrack included.
C4_UnsetEqualsTrue ==
    \A p \in payloads :
        /\ \A f \in FieldsOf(variant) :
              /\ Param[f] = "undefined" =>
                    p = generateStealthScript(variant, [Param EXCEPT ![f] = "true"], 0)
              /\ Param[f] = "true" =>
                    p = generateStealthScript(variant, [Param EXCEPT ![f] = "undefined"], 0)
        /\ AllUnset => \A rid \in GatedRecipes(variant) : HasRecipe(p, rid)

C4_Witness ==
    /\ passConfig
    /\ AllUnset
    /\ calls > 0
    /\ \E p \in payloads : HasRecipe(p, "doNotTrack")

\* the entries of the returned array that begin with the piece flag
EntriesWith(flag) == {i \in 1 .. Len(args) : args[i][1] = flag}

HasAutomationControlled ==
    \E i \in 1 .. Len(args) : args[i] = <<"--disable-blink-features=AutomationControlled">>

\* an entry '--user-agent=' followed by the fixed template around a Chrome version
HasUserAgent ==
    \E i \in EntriesWith("--user-agent=") :
        \E ver \in {versions.chrome[n] : n \in 1 .. Len(versions.chrome)} :
            args[i] = <<"--user-agent=", UA_PREFIX, ver, UA_SUFFIX>>

C6_BothTokensSubstituted ==
    (argsCalls > 0 /\ variant = "enhanced") =>
        \A i \in EntriesWith("--user-agent=") :
            /\ \E j \in 1 .. Len(args[i]) : args[i][j] = randomChrome
            /\ \E j \in 1 .. Len(args[i]) : args[i][j] = randomSafari

\* C7 (as stated): a customUserAgent string given in the config appears in the
\* payload of generateStealthScript.
C7_CustomUserAgentReflected ==
    \A p \in payloads :
        Param["customUserAgent"] # "undefined" =>
            \E i \in 1 .. Len(p) : p[i].v = Param["customUserAgent"]

\* C8: the payloads returned for one configuration are equal once their
\* numeric literals are stripped.
C8_SameStructure ==
    \A p \in payloads : \A q \in payloads : Strip(p) = Strip(q)

C8_Witness ==
    /\ calls >= 2
    /\ \E p \in payloads : HasRecipe(p, "canvasNoise") /\ Strip(p) # p

\* C9 (as stated): generateStealthScript draws random values when it renders a
\* noise or behavior group.
NoiseActive ==
    \E f \in EnhancedFields \cap FieldsOf(variant) : Param[f] # "false"

RecipeOf(chunk) ==
    IF \E rid \in RecipeIds : Templates[rid] = chunk
    THEN CHOOSE rid \in RecipeIds : Templates[rid] = chunk
    ELSE "?"

RecipeSeq(p) ==
    LET chunks == Split(p, SEP)
    IN  [i \in 1 .. Len(chunks) |-> RecipeOf(chunks[i])]

\* C10: the recipes of every payload are recipes of the catalog, joined by the
\* separator, none repeated, in the order of the all-enabled payload.
C10_CatalogOrder ==
    \A p \in payloads :
        LET rs == RecipeSeq(p)
            full == RecipeSeq(generateStealthScript(variant, Uniform(variant, "true"), 0))
        IN  /\ \A i \in 1 .. Len(rs) : rs[i] \in RecipeIds
            /\ \A i \in 1 .. Len(rs) : \A j \in 1 .. Len(rs) : rs[i] = rs[j] => i = j
            /\ IsSubsequence(rs, full)

C10_Witness ==
    /\ calls > 0
    /\ passConfig
    /\ config["navigator"] = "false"
    /\ config["plugins"] # "false"
    /\ \E p \in payloads : Len(RecipeSeq(p)) > 3 /\ HasRecipe(p, "mimeTypes")

\* C11: a call of generateStealthScript leaves every field of the config it is
\* given, and of the shared defaultStealthConfig, as it was before the call.
C11_ConfigNotMutated ==
    [][(calls' = calls + 1) =>
          (config' = config /\ defaultStealthConfig' = defaultStealthConfig)]_vars

C11_Witness ==
    /\ calls > 0
    /\ passConfig
    /\ \E f \in FieldsOf(variant) : config[f] = "undefined"
    /\ defaultStealthConfig = DefaultConfig(variant)

\* a string: a finite sequence of text tokens
IsString(p) ==
    /\ DOMAIN p = 1 .. Len(p)
    /\ \A i \in 1 .. Len(p) : p[i].k \in {"s", "n"}

\* an array of strings, each a sequence of string pieces
IsArray(a) ==
    /\ DOMAIN a = 1 .. Len(a)
    /\ \A i \in 1 .. Len(a) : Len(a[i]) > 0

\* C12: for every configuration generateStealthScript can be called and returns
\* a string; generateStealthArgs can be called and returns a sequence.  The
\* config of a behaviour is fixed by Init, so the states before the first call
\* hold every configuration.
C12_Total ==
    /\ calls = 0 =>
          \A rnd \in 0 .. RandDenom - 1 :
              IsString(generateStealthScript(variant, Param, rnd))
    /\ calls > 0 => payloads # {} /\ \A p \in payloads : IsString(p)
    /\ argsCalls < MaxArgsCalls =>
          /\ ENABLED NextArgs
          /\ ~ ENABLED (NextArgs /\ ~IsArray(args'))

C12_Witness ==
    /\ calls > 0
    /\ passConfig
    /\ \E f \in FieldsOf(variant) : config[f] = "undefined"
    /\ \E f \in FieldsOf(variant) : config[f] = "false"
    /\ \E p \in payloads : Len(p) > 0

\* the groups gated by a single key, and the recipes each pushes
SingleKeyGroups(v) ==
    {n \in 1 .. Len(CatalogOf(v)) : Cardinality(CatalogOf(v)[n].gate) = 1}

\* C13: the recipes of a group gated by one key are in the payload if and only
\* if that key is not explicitly false, whatever the other fields hold.
C13_SingleKeyGate ==
    \A p \in payloads : \A n \in SingleKeyGroups(variant) :
        LET g == CatalogOf(variant)[n]
        IN  \A k \in g.gate : \A i \in 1 .. Len(g.recipes) :
                HasRecipe(p, g.recipes[i]) <=> (Param[k] # "false")

C13_Witness ==
    /\ calls > 0
    /\ passConfig
    /\ config["navigator"] = "false"
    /\ config["touchSupport"] # "false"
    /\ \E p \in payloads :
          HasRecipe(p, "maxTouchPoints") /\ ~HasRecipe(p, "language")


\* the property descriptors of a payload: where each opens and closes
Descriptors(p) == {i \in 1 .. Len(p) : p[i] = S("Object.defineProperty")}

DescriptorEnd(p, i) ==
    CHOOSE j \in i .. Len(p) : p[j] = S("});") /\ \A m \in i .. j - 1 : p[m] # S("});")

DescriptorHas(p, i, flag) == \E j \in i .. DescriptorEnd(p, i) : p[j] = S(flag)

\* C14 (as stated): every Object.defineProperty recipe of every payload is
\* declared both configurable: true and enumerable: true.
C14_ConfigurableAndEnumerable ==
    \A p \in payloads : \A i \in Descriptors(p) :
        /\ DescriptorHas(p, i, "configurable: true")
        /\ DescriptorHas(p, i, "enumerable: true")

\* the wrappers a payload installs, each with the recipe that installs it
WrapperRecipes == {r \in RecipeIds : Wrappers(r) # {}}

Installed(p) ==
    UNION {{<<rid, w>> : w \in Wrappers(rid)} : rid \in {r \in WrapperRecipes : HasRecipe(p, r)}}

\* the text that saves the original of a wrapper and assigns its replacement
WrapperHead(w) ==
    <<S("const"), S(w.original), S("="), S(w.surface), S(";"), S(w.surface)>>

\* the calls that a wrapper answers with a fixed value: the notifications
\* permission, and the vendor and renderer parameters of the WebGL vendor
\* recipe and of the WebGL2 wrapper
Spoofed(rid, w, facts) ==
    \/ w.original = "originalQuery" /\ "name=notifications" \in facts
    \/ /\ rid = "webglVendor" \/ w.original = "getParameter2"
       /\ facts \cap {"p=37445", "p=37446"} # {}

\* C15 (as stated): every wrapper of every payload invokes the original
\* implementation on every call path, for every argument.
C15_EveryPathCallsOriginal ==
    \A p \in payloads : \A iw \in Installed(p) : \A facts \in iw[2].inputs :
        Invocations(iw[2], facts) >= 1

\* C15 (amended): every wrapper of every payload is in the text of its recipe,
\* and it invokes the original implementation on every call path except the paths
\* that answer a spoofed value, which return without invoking it.
C15_CallsOriginalUnlessSpoofed ==
    \A p \in payloads : \A iw \in Installed(p) :
        /\ Contains(Templates[iw[1]], WrapperHead(iw[2]))
        /\ \A facts \in iw[2].inputs :
              IF Spoofed(iw[1], iw[2], facts)
              THEN Invocations(iw[2], facts) = 0
              ELSE Invocations(iw[2], facts) >= 1

C15_Witness ==
    /\ calls > 0
    /\ \E p \in payloads :
          /\ \E iw \in Installed(p) :
                /\ iw[1] = "permissions.query"
                /\ Invocations(iw[2], {"name=notifications"}) = 0
                /\ Invocations(iw[2], {}) = 1
          /\ \E iw \in Installed(p) :
                /\ iw[2].surface = "HTMLElement.prototype.click"
                /\ Invocations(iw[2], {}) = 1

\* the places of a payload that override a browser surface: a property
\* descriptor, or an assignment of a function to a method
MethodAssign == {S("= function"), S("= (parameters) =>")}

OverrideSites(p) ==
    Descriptors(p) \cup {i \in 1 .. Len(p) - 1 : p[i + 1] \in MethodAssign}

SurfaceAt(p, i) ==
    IF p[i] = S("Object.defineProperty") THEN <<p[i + 1].v, p[i + 2].v>> ELSE <<p[i].v>>

\* C16 (as stated): no property or method is overridden by two recipes of one
\* payload, so the final set of overrides does not depend on the order.
C16_SurfacesDisjoint ==
    \A p \in payloads : \A i, j \in OverrideSites(p) :
        i # j => SurfaceAt(p, i) # SurfaceAt(p, j)

ScreenKeys == {"screenWidth", "screenHeight", "pixelRatio", "colorDepth"}

ScreenRecipes ==
    {"screen.width", "screen.height", "screen.availWidth", "screen.availHeight",
     "devicePixelRatio", "screen.colorDepth"}

\* C17: the six screen recipes are in a payload all together or not at all, and
\* they are in it if and only if one of screenWidth, screenHeight, pixelRatio,
\* colorDepth is not explicitly false.
C17_ScreenAllOrNone ==
    \A p \in payloads : \A rid \in ScreenRecipes :
        HasRecipe(p, rid) <=> (\E k \in ScreenKeys : Param[k] # "false")

C17_Witness ==
    /\ calls > 0
    /\ passConfig
    /\ config["screenWidth"] = "false"
    /\ config["colorDepth"] # "false"
    /\ \E p \in payloads : \A rid \in ScreenRecipes : HasRecipe(p, rid)

\* the tokens that open and close a nested function or object body
Opens == {S("Object.defineProperty")} \cup MethodAssign
Closes == {S("});"), S("};")}

\* the nesting depth of position i of a recipe
Depth(c, i) ==
    Cardinality({j \in 1 .. i - 1 : c[j] \in Opens})
        - Cardinality({j \in 1 .. i - 1 : c[j] \in Closes})

\* the positions of a recipe that declare a name by const or let outside every
\* nested body
TopLevelDecls(c) ==
    {i \in 1 .. Len(c) - 1 : c[i] \in {S("const"), S("let")} /\ Depth(c, i) = 0}

\* C18 (as stated): in a payload of the enhanced generator no top-level const or
\* let identifier is declared by more than one emitted recipe.
C18_NoDuplicateDeclaration ==
    variant = "enhanced" =>
        \A p \in payloads :
            LET chunks == Split(p, SEP)
            IN  \A a, b \in 1 .. Len(chunks) :
                    a # b =>
                        \A i \in TopLevelDecls(chunks[a]) : \A j \in TopLevelDecls(chunks[b]) :
                            chunks[a][i + 1] # chunks[b][j + 1]

IsPrefix(s, t) == Len(s) <= Len(t) /\ SubSeq(t, 1, Len(s)) = s

\* the recipes pushed only by the enhanced generator
EnhancedOnly ==
    UNION {{Catalog[n].recipes[i] : i \in 1 .. Len(Catalog[n].recipes)} :
              n \in BasicGroups + 1 .. Len(Catalog)}

\* e is b followed only by separator-joined recipes of the enhanced-only groups
Extends(e, b) ==
    /\ IsPrefix(b, e)
    /\ LET rest == SubSeq(e, Len(b) + 1, Len(e))
       IN  rest # <<>> =>
              /\ rest[1] = SEP
              /\ LET added == RecipeSeq(Tail(rest))
                 IN  \A i \in 1 .. Len(added) : added[i] \in EnhancedOnly

\* C19: for every configuration the payload of the basic generator is a prefix
\* of the payload of the enhanced generator, which adds after it only recipes of
\* the noise, behavior and capability stand-in groups.
C19_EnhancedExtendsBasic ==
    \A p \in payloads :
        IF variant = "enhanced"
        THEN Extends(p, generateStealthScript("basic", Param, 0))
        ELSE Extends(generateStealthScript("enhanced", Param, 0), p)

C19_Witness ==
    /\ calls > 0
    /\ variant = "enhanced"
    /\ \E p \in payloads :
          /\ HasRecipe(p, "webdriver")
          /\ HasRecipe(p, "canvasNoise")
          /\ HasRecipe(p, "clipboard")
          /\ Len(generateStealthScript("basic", Param, 0)) < Len(p)

====
